---------------------------- MODULE Spec2Model ----------------------------
(***************************************************************************)
(* Satisfier: a CNF satisfiability checker (DPLL) whose formulas may name  *)
(* previously stored formulas.                                             *)
(*                                                                         *)
(* Modelled sources:                                                       *)
(*   src/satisfier.go      the program: store, parser, simplifier, the     *)
(*                         recursive DPLL and the prompt loop;             *)
(*   src/unnamed/part_001  the variant with the work-stack iterativeDPLL.  *)
(*                                                                         *)
(* A Go map is a TLA+ function on a finite domain.  A Go string is a       *)
(* sequence of one-character strings.  Wherever the code ranges over a     *)
(* map, whose iteration order Go leaves unspecified, the model takes every *)
(* order: the operators that contain such a loop return the SET of results *)
(* the loop can produce.                                                   *)
(***************************************************************************)
EXTENDS Integers, Sequences, FiniteSets, TLC

VARIABLES
    store,       \* program: the FormulaStore in memory
    file,        \* program: the FormulaStore as saveStore last wrote it
    pc,          \* program: "prompt", "crashed" (stack overflow) or "exited";
                 \* "solver" while the engines are run on their own
    last,        \* program: the inputs and the intermediate values of the last check
    rerun,       \* what a second run of the last check on the same store gave
    cnf,         \* solver harness: the clause set handed to the engines
    recResult,   \* solver harness: what DPLL returned for cnf
    iterResult,  \* solver harness: what iterativeDPLL returned for cnf
    simp,        \* simplifier harness: the last simplifier call on cnf and its result
    search,      \* one search on cnf, step by step: engine, call stack, shared map
    parse        \* parser harness: the last parseCNF call on store and its result

programVars == <<store, file, pc, last, rerun, parse>>
solverVars == <<cnf, recResult, iterResult, simp, search>>
vars == <<store, file, pc, last, rerun, cnf, recResult, iterResult, simp, search, parse>>

-----------------------------------------------------------------------------
(* Bounds of the solver harness.                                           *)

\* Variable ids are 1..NumVars.
NumVars == 2
\* A clause set has at most MaxSize clauses and literal occurrences together.
MaxSize == 6
\* The clauses plus literal occurrences of a clause set of the search harness.
MaxSearchSize == 5
\* The replacements of a name by its stored text in one parse of part_001.
MaxSplices == 4

Vars == 1..NumVars
Lits == {l \in (-NumVars)..NumVars : l # 0}

-----------------------------------------------------------------------------
(* Go maps.                                                                *)

EmptyMap == [k \in {} |-> TRUE]

\* m[k] = v
Put(m, k, v) == [x \in (DOMAIN m) \cup {k} |-> IF x = k THEN v ELSE m[x]]

\* Every order in which a range loop can visit the keys S.
Perms(S) ==
    {p \in [1..Cardinality(S) -> S] : \A i, j \in DOMAIN p : p[i] = p[j] => i = j}

-----------------------------------------------------------------------------
(* The simplifier.                                                         *)

abs(x) == IF x < 0 THEN -x ELSE x

\* Mutant of assign: a clause is skipped on either literal of variable,
\* whatever the value.
assignDropsEitherPolarity(c, variable, value) ==
    SelectSeq(c, LAMBDA clause :
        ~\E i \in 1..Len(clause) : clause[i] = variable \/ clause[i] = -variable)

\* Mutant of assign: a clause that is not skipped is copied whole.
assignKeepsFalseLiteral(c, variable, value) ==
    SelectSeq(c, LAMBDA clause :
        ~\E i \in 1..Len(clause) :
            \/ clause[i] = variable /\ value
            \/ clause[i] = -variable /\ ~value)

\* A clause holding the literal that (variable, value) makes true is skipped;
\* every other clause is copied without the literals of variable.
assign(c, variable, value) ==
    LET skipClause(clause) ==
            \E i \in 1..Len(clause) :
                \/ clause[i] = variable /\ value
                \/ clause[i] = -variable /\ ~value
        kept == SelectSeq(c, LAMBDA clause : ~skipClause(clause))
    IN  [i \in 1..Len(kept) |->
            SelectSeq(kept[i], LAMBDA literal :
                literal # variable /\ literal # -variable)]

RECURSIVE UnitPropagation(_, _)

\* Mutant of UnitPropagation: the unit's value has the wrong sign.
UnitPropagationSignSlip(c, assignment) ==
    LET units == {i \in 1..Len(c) : Len(c[i]) = 1}
    IN  IF units # {}
        THEN LET first == CHOOSE i \in units : \A j \in units : i <= j
                 unit == c[first][1]
                 value == unit < 0
                 variable == abs(unit)
             IN  UnitPropagation(assign(c, variable, value),
                                 Put(assignment, variable, value))
        ELSE [cnf |-> c,
              ok |-> ~\E i \in 1..Len(c) : Len(c[i]) = 0,
              assignment |-> assignment]

\* Mutant of UnitPropagation: the outer loop runs once.
UnitPropagationOnePass(c, assignment) ==
    LET units == {i \in 1..Len(c) : Len(c[i]) = 1}
        first == CHOOSE i \in units : \A j \in units : i <= j
        unit == c[first][1]
        value == unit > 0
        variable == abs(unit)
        after == IF units # {} THEN assign(c, variable, value) ELSE c
    IN  [cnf |-> after,
         ok |-> ~\E i \in 1..Len(after) : Len(after[i]) = 0,
         assignment |-> IF units # {} THEN Put(assignment, variable, value)
                        ELSE assignment]

\* Returns [cnf, ok, assignment]; assignment is the caller's map after the call.
UnitPropagation(c, assignment) ==
    LET units == {i \in 1..Len(c) : Len(c[i]) = 1}
    IN  IF units # {}
        THEN LET first == CHOOSE i \in units : \A j \in units : i <= j
                 unit == c[first][1]
                 value == unit > 0
                 variable == abs(unit)
             IN  UnitPropagation(assign(c, variable, value),
                                 Put(assignment, variable, value))
        ELSE [cnf |-> c,
              ok |-> ~\E i \in 1..Len(c) : Len(c[i]) = 0,
              assignment |-> assignment]

\* The places <<clause, literal>> of a clause set.
Positions(c) == UNION {{<<i, k>> : k \in 1..Len(c[i])} : i \in 1..Len(c)}

\* literalCount of PureLiteralElimination: occurrences of each literal.
literalCount(c, literal) ==
    Cardinality({p \in Positions(c) : c[p[1]][p[2]] = literal})

\* The keys of literalCount.
literalKeys(c) == {c[p[1]][p[2]] : p \in Positions(c)}

RECURSIVE pureLoop(_, _, _, _)

\* Mutant of pureLoop: the pure literal's value is not recorded.
pureLoopForgetsValue(order, i, c, assignment) ==
    IF i > Len(order)
    THEN [cnf |-> c, assignment |-> assignment]
    ELSE LET literal == order[i]
             value == literal > 0
             variable == abs(literal)
         IN  pureLoop(order, i + 1, assign(c, variable, value), assignment)

\* The range loop of PureLiteralElimination over the pure keys in one order.
pureLoop(order, i, c, assignment) ==
    IF i > Len(order)
    THEN [cnf |-> c, assignment |-> assignment]
    ELSE LET literal == order[i]
             value == literal > 0
             variable == abs(literal)
         IN  pureLoop(order, i + 1, assign(c, variable, value),
                      Put(assignment, variable, value))

\* The set of [cnf, assignment] the call can return: one per iteration order.
\* The counts are taken once, before the loop, so the keys the loop acts on
\* are fixed; the keys it skips change nothing.
PureLiteralElimination(c, assignment) ==
    LET pure == {literal \in literalKeys(c) :
                    literalCount(c, literal) > 0 /\ literalCount(c, -literal) = 0}
    IN  {pureLoop(order, 1, c, assignment) : order \in Perms(pure)}

-----------------------------------------------------------------------------
(* The search engines.                                                     *)

\* Mutant of branchVariable: the variable keeps the zero value it is declared with.
branchVariableUnset(c) == 0

\* "first literal in the first clause" (0 when every clause is empty)
branchVariable(c) ==
    LET nonEmpty == {i \in 1..Len(c) : Len(c[i]) > 0}
    IN  IF nonEmpty = {} THEN 0
        ELSE abs(c[CHOOSE i \in nonEmpty : \A j \in nonEmpty : i <= j][1])

RECURSIVE DPLL(_, _)
\* The set of [sat, assignment] the call can return.  assignment is the one
\* map every level of the recursion writes to: the false branch starts from
\* the map as the failed true branch left it.
DPLL(c, assignment) ==
    LET up == UnitPropagation(c, assignment)
        afterPure(pl) ==
            IF Len(pl.cnf) = 0
            THEN {[sat |-> TRUE, assignment |-> pl.assignment]}
            ELSE LET variable == branchVariable(pl.cnf)
                     tried == DPLL(assign(pl.cnf, variable, TRUE),
                                   Put(pl.assignment, variable, TRUE))
                 IN  UNION {IF t.sat
                            THEN {t}
                            ELSE DPLL(assign(pl.cnf, variable, FALSE),
                                      Put(t.assignment, variable, FALSE))
                            : t \in tried}
    IN  IF ~up.ok
        THEN {[sat |-> FALSE, assignment |-> up.assignment]}
        ELSE UNION {afterPure(pl) : pl \in PureLiteralElimination(up.cnf, up.assignment)}

copyAssignment(original) == [key \in DOMAIN original |-> original[key]]

RECURSIVE iterativeLoop(_, _)
\* The loop of iterativeDPLL on a stack of [cnf, assignment] (top is last).
iterativeLoop(stack, assignment) ==
    IF Len(stack) = 0
    THEN {[sat |-> FALSE, assignment |-> assignment]}
    ELSE LET state == stack[Len(stack)]
             rest == SubSeq(stack, 1, Len(stack) - 1)
             up == UnitPropagation(state.cnf, state.assignment)
             afterPure(pl) ==
                IF Len(pl.cnf) = 0
                THEN {[sat |-> TRUE, assignment |-> pl.assignment]}
                ELSE LET variable == branchVariable(pl.cnf)
                     IN  iterativeLoop(
                            rest \o
                            <<[cnf |-> assign(pl.cnf, variable, FALSE),
                               assignment |-> copyAssignment(pl.assignment)],
                              [cnf |-> assign(pl.cnf, variable, TRUE),
                               assignment |-> copyAssignment(pl.assignment)]>>,
                            assignment)
         IN  IF ~up.ok
             THEN iterativeLoop(rest, assignment)
             ELSE UNION {afterPure(pl) :
                            pl \in PureLiteralElimination(up.cnf, up.assignment)}

iterativeDPLL(c, assignment) ==
    iterativeLoop(<<[cnf |-> c, assignment |-> copyAssignment(assignment)]>>,
                  assignment)

-----------------------------------------------------------------------------
(* Go strings: a string is a sequence of one-character strings.            *)

\* strings.ReplaceAll(s, " ", "")
ReplaceAllSpaces(s) == SelectSeq(s, LAMBDA ch : ch # " ")

RECURSIVE Split(_, _)
\* strings.Split(s, sep), sep not empty: the pieces around the instances of
\* sep, found left to right without overlap; one piece when there is none.
Split(s, sep) ==
    LET hits == {i \in 1..(Len(s) - Len(sep) + 1) :
                    SubSeq(s, i, i + Len(sep) - 1) = sep}
    IN  IF hits = {} THEN <<s>>
        ELSE LET i == CHOOSE h \in hits : \A g \in hits : h <= g
             IN  <<SubSeq(s, 1, i - 1)>>
                 \o Split(SubSeq(s, i + Len(sep), Len(s)), sep)

RECURSIVE Trim(_, _)
\* strings.Trim(s, cutset): s without its leading and trailing cutset characters.
Trim(s, cutset) ==
    IF Len(s) > 0 /\ s[1] \in cutset THEN Trim(Tail(s), cutset)
    ELSE IF Len(s) > 0 /\ s[Len(s)] \in cutset
         THEN Trim(SubSeq(s, 1, Len(s) - 1), cutset)
         ELSE s

\* strings.HasPrefix(s, prefix)
HasPrefix(s, prefix) ==
    Len(s) >= Len(prefix) /\ SubSeq(s, 1, Len(prefix)) = prefix

\* The separators of the surface syntax: "/\" and "\/".
AndSep == <<"/", "\\">>
OrSep == <<"\\", "/">>

-----------------------------------------------------------------------------
(* The store and the parser.                                               *)

\* FormulaStore as loadStore makes it when there is no file.
EmptyStore == [Formulas |-> EmptyMap, Assignments |-> EmptyMap]

\* parseCNF calls itself for every stored name it meets and keeps no record
\* of the names it is expanding.  A chain of nested calls longer than the
\* number of stored names holds some name twice, and from there the same
\* expansion repeats with nothing to stop it: the call never returns and the
\* Go runtime ends the process with a stack overflow.  The model reports that
\* outcome as overflow = TRUE.
callChainRepeats(formulaStore, depth) == depth >= Cardinality(DOMAIN formulaStore.Formulas)

RECURSIVE parseCNF(_, _, _, _)
RECURSIVE parseLiterals(_, _, _, _, _)
RECURSIVE parseClauses(_, _, _, _, _)

\* The loop over the literals of one clause.  st holds the locals of the
\* enclosing parseCNF call (cnf, clause, reverseMap, counter) and the varMap
\* it shares with its caller.
parseLiterals(literals, k, st, formulaStore, depth) ==
    IF st.overflow \/ k > Len(literals) THEN st
    ELSE
    LET isNeg == HasPrefix(literals[k], <<"!">>)
        litStr == Trim(literals[k], {"!"})
    IN  IF litStr \in DOMAIN formulaStore.Formulas
        THEN IF callChainRepeats(formulaStore, depth)
             THEN [st EXCEPT !.overflow = TRUE]
             ELSE
             LET sub == parseCNF(formulaStore.Formulas[litStr], st.varMap, formulaStore, depth + 1)
                 negated == [i \in 1..Len(sub.cnf) |->
                                [j \in 1..Len(sub.cnf[i]) |-> -sub.cnf[i][j]]]
             IN  IF sub.overflow THEN [st EXCEPT !.overflow = TRUE]
                 ELSE parseLiterals(literals, k + 1,
                        [st EXCEPT !.varMap = sub.varMap,
                                   !.cnf = @ \o (IF isNeg THEN negated ELSE sub.cnf)],
                        formulaStore, depth)
        ELSE
        \* assignVar(litStr)
        LET isNew == litStr \notin DOMAIN st.varMap
            varMap == IF isNew THEN Put(st.varMap, litStr, st.counter) ELSE st.varMap
            reverseMap == IF isNew THEN Put(st.reverseMap, st.counter, litStr)
                          ELSE st.reverseMap
            counter == IF isNew THEN st.counter + 1 ELSE st.counter
            lit == IF isNeg THEN -varMap[litStr] ELSE varMap[litStr]
        IN  parseLiterals(literals, k + 1,
                [st EXCEPT !.varMap = varMap, !.reverseMap = reverseMap,
                           !.counter = counter, !.clause = Append(@, lit)],
                formulaStore, depth)

\* The loop over the clause substrings.
parseClauses(clauses, i, st, formulaStore, depth) ==
    IF st.overflow \/ i > Len(clauses) THEN st
    ELSE LET literals == Split(Trim(clauses[i], {"(", ")"}), OrSep)
             done == parseLiterals(literals, 1, [st EXCEPT !.clause = <<>>],
                                   formulaStore, depth)
         IN  parseClauses(clauses, i + 1,
                IF done.overflow \/ Len(done.clause) = 0 THEN done
                ELSE [done EXCEPT !.cnf = Append(@, done.clause)],
                formulaStore, depth)

\* Returns [cnf, reverseMap, varMap, overflow]: the two results of the Go
\* function, the caller's varMap as the call leaves it, and whether the call
\* failed to return.  counter and reverseMap start afresh in every call.
parseCNF(input, varMap, formulaStore, depth) ==
    LET st == parseClauses(Split(ReplaceAllSpaces(input), AndSep), 1,
                [cnf |-> <<>>, clause |-> <<>>, varMap |-> varMap,
                 reverseMap |-> EmptyMap, counter |-> 1, overflow |-> FALSE],
                formulaStore, depth)
    IN  [cnf |-> st.cnf, reverseMap |-> st.reverseMap, varMap |-> st.varMap,
         overflow |-> st.overflow]

-----------------------------------------------------------------------------
(* The parser of part_001: one scan over the characters of the input, a     *)
(* stored formula's text being put in the place of its name.  Positions     *)
(* count from 0 as in the source.                                           *)

\* input[from:to]
Slice(s, from, to) == SubSeq(s, from + 1, to)

RECURSIVE scanLiteral(_, _)
\* for i < len(input) && (input[i] != ')' && input[i] != '\\' && input[i] != '/') { i++ }
scanLiteral(input, i) ==
    IF i < Len(input) /\ input[i + 1] \notin {")", "\\", "/"}
    THEN scanLiteral(input, i + 1)
    ELSE i

\* The closure assignVar on the locals sc of the call.
assignVar(sc, v) ==
    IF v \in DOMAIN sc.varMap THEN sc
    ELSE [sc EXCEPT !.varMap = Put(@, v, sc.counter),
                    !.reverseMap = Put(@, sc.counter, v),
                    !.counter = @ + 1]

\* if len(currentClause) > 0 { cnf = append(cnf, currentClause); currentClause = Clause{} }
endClause(sc) ==
    IF Len(sc.currentClause) > 0
    THEN [sc EXCEPT !.cnf = Append(@, sc.currentClause), !.currentClause = <<>>]
    ELSE sc

RECURSIVE scanLoop(_, _)
\* The loop for i < len(input).  sc holds the locals of the call.  A stored
\* text that names a stored formula on a cycle makes the input grow without
\* end: overflow, after MaxSplices replacements.  A ')' on an empty stack
\* panics (slice bounds out of range).
scanLoop(sc, formulaStore) ==
    IF sc.i >= Len(sc.input) THEN endClause(sc)
    ELSE
    LET input == sc.input
        i == sc.i
        ch == input[i + 1]
        next == IF i + 1 < Len(input) THEN input[i + 2] ELSE ""
        literalAt(start) == Slice(input, start, scanLiteral(input, start))
        substitute(start, from, pushed) ==
            IF sc.splices >= MaxSplices THEN [sc EXCEPT !.overflow = TRUE]
            ELSE scanLoop(
                   [sc EXCEPT !.stack = Append(@, pushed),
                              !.input = Slice(input, 0, from)
                                          \o formulaStore.Formulas[literalAt(start)]
                                          \o Slice(input, scanLiteral(input, start),
                                                   Len(input)),
                              !.i = from,
                              !.splices = @ + 1],
                   formulaStore)
        literal(start, isNeg) ==
            LET named == assignVar(sc, literalAt(start))
                lit == named.varMap[literalAt(start)]
            IN  scanLoop(
                   [named EXCEPT !.currentClause = Append(@, IF isNeg THEN -lit ELSE lit),
                                 !.i = scanLiteral(input, start)],
                   formulaStore)
    IN  CASE ch = "(" ->
               scanLoop([sc EXCEPT !.stack = Append(@, <<"(">>), !.i = @ + 1],
                        formulaStore)
          [] ch = ")" ->
               IF sc.stack = <<>> THEN [endClause(sc) EXCEPT !.panic = TRUE]
               ELSE scanLoop([endClause(sc) EXCEPT
                                 !.stack = SubSeq(@, 1, Len(@) - 1), !.i = @ + 1],
                             formulaStore)
          [] ch = "/" ->
               IF next = "\\"
               THEN scanLoop([endClause(sc) EXCEPT !.i = @ + 2], formulaStore)
               ELSE scanLoop([sc EXCEPT !.i = @ + 1], formulaStore)
          [] ch = "\\" ->
               IF next = "/"
               THEN scanLoop([sc EXCEPT !.i = @ + 2], formulaStore)
               ELSE scanLoop([sc EXCEPT !.i = @ + 1], formulaStore)
          [] ch = "!" ->
               IF literalAt(i + 1) \in DOMAIN formulaStore.Formulas
               THEN substitute(i + 1, i, <<"!">> \o literalAt(i + 1))
               ELSE literal(i + 1, TRUE)
          [] OTHER ->
               IF literalAt(i) \in DOMAIN formulaStore.Formulas
               THEN substitute(i, i, literalAt(i))
               ELSE literal(i, FALSE)

\* parseCNF of part_001: [cnf, reverseMap, varMap, overflow, panic].
scanningParseCNF(input, varMap, formulaStore) ==
    LET sc == scanLoop(
                [input |-> ReplaceAllSpaces(input), i |-> 0, cnf |-> <<>>,
                 currentClause |-> <<>>, stack |-> <<>>, varMap |-> varMap,
                 reverseMap |-> EmptyMap, counter |-> 1, splices |-> 0,
                 overflow |-> FALSE, panic |-> FALSE],
                formulaStore)
    IN  [cnf |-> sc.cnf, reverseMap |-> sc.reverseMap, varMap |-> sc.varMap,
         overflow |-> sc.overflow, panic |-> sc.panic]

-----------------------------------------------------------------------------
(* The check of one formula: option 1 of the prompt loop.                  *)

\* m[k] of a Go map: the zero value when k is not a key.
Get(m, k, zero) == IF k \in DOMAIN m THEN m[k] ELSE zero

containsVariable(c, varName, reverseMap) ==
    \E p \in Positions(c) : Get(reverseMap, abs(c[p[1]][p[2]]), <<>>) = varName

RECURSIVE readPreAssignments(_, _, _, _, _, _)
\* The loop that turns the entered "Var := Value" items, here a sequence of
\* <<varName, varValue>>, into preAssignments.
readPreAssignments(items, i, preAssignments, varMap, c, reverseMap) ==
    IF i > Len(items) THEN preAssignments
    ELSE LET varName == items[i][1]
             varValue == items[i][2]
         IN  readPreAssignments(items, i + 1,
                IF varName \in DOMAIN varMap
                THEN Put(preAssignments, varMap[varName], varValue)
                ELSE IF containsVariable(c, varName, reverseMap)
                     THEN Put(preAssignments, Get(varMap, varName, 0), varValue)
                     ELSE preAssignments,
                varMap, c, reverseMap)

\* Mutant of applyLoop: the clause set is returned as it came.
applyLoopSkips(order, i, c, assignment) == c

RECURSIVE applyLoop(_, _, _, _)
applyLoop(order, i, c, assignment) ==
    IF i > Len(order) THEN c
    ELSE applyLoop(order, i + 1, assign(c, order[i], assignment[order[i]]), assignment)

\* The clause sets the call can return: one per iteration order of the map.
applyPreAssignments(c, assignment) ==
    {applyLoop(order, 1, c, assignment) : order \in Perms(DOMAIN assignment)}

RECURSIVE recordLoop(_, _, _, _, _)
\* for lit, val := range result { Assignments[formulaName][reverseMap[abs(lit)]] = val }
recordLoop(order, i, named, result, reverseMap) ==
    IF i > Len(order) THEN named
    ELSE recordLoop(order, i + 1,
            Put(named, Get(reverseMap, abs(order[i]), <<>>), result[order[i]]),
            result, reverseMap)

\* The named assignments the recording loop can leave: one per iteration order.
recordAssignments(result, reverseMap) ==
    {recordLoop(order, 1, EmptyMap, result, reverseMap) : order \in Perms(DOMAIN result)}

\* Mutant of checkFormula: the entered formula is recorded whatever the verdict.
checkFormulaStoresAnyVerdict(st, formulaName, input, items) ==
    LET parsed == parseCNF(input, EmptyMap, st, 0)
        preAssignments == readPreAssignments(items, 1, EmptyMap, parsed.varMap,
                                             parsed.cnf, parsed.reverseMap)
        outcome(sat, result, after) ==
            [crashed |-> FALSE, cnf |-> parsed.cnf, varMap |-> parsed.varMap,
             reverseMap |-> parsed.reverseMap, preAssignments |-> preAssignments,
             sat |-> sat, result |-> result, store |-> after]
        recorded(r) ==
            {outcome(r.sat, r.assignment,
                     [Formulas |-> Put(st.Formulas, formulaName, input),
                      Assignments |-> Put(st.Assignments, formulaName, named)])
                : named \in recordAssignments(r.assignment, parsed.reverseMap)}
    IN  IF parsed.overflow
        THEN {[crashed |-> TRUE, cnf |-> <<>>, varMap |-> EmptyMap,
               reverseMap |-> EmptyMap, preAssignments |-> EmptyMap,
               sat |-> FALSE, result |-> EmptyMap, store |-> st]}
        ELSE UNION {UNION {recorded(r) : r \in DPLL(applied, preAssignments)}
                        : applied \in applyPreAssignments(parsed.cnf, preAssignments)}

\* Everything one check can do on store st: the set of
\* [crashed, cnf, varMap, reverseMap, preAssignments, sat, result, store],
\* where store is the store the check leaves and saves.
checkFormula(st, formulaName, input, items) ==
    LET parsed == parseCNF(input, EmptyMap, st, 0)
        preAssignments == readPreAssignments(items, 1, EmptyMap, parsed.varMap,
                                             parsed.cnf, parsed.reverseMap)
        outcome(sat, result, after) ==
            [crashed |-> FALSE, cnf |-> parsed.cnf, varMap |-> parsed.varMap,
             reverseMap |-> parsed.reverseMap, preAssignments |-> preAssignments,
             sat |-> sat, result |-> result, store |-> after]
        recorded(r) ==
            IF r.sat
            THEN {outcome(TRUE, r.assignment,
                        [Formulas |-> Put(st.Formulas, formulaName, input),
                         Assignments |-> Put(st.Assignments, formulaName, named)])
                    : named \in recordAssignments(r.assignment, parsed.reverseMap)}
            ELSE {outcome(FALSE, r.assignment, st)}
    IN  IF parsed.overflow
        THEN {[crashed |-> TRUE, cnf |-> <<>>, varMap |-> EmptyMap,
               reverseMap |-> EmptyMap, preAssignments |-> EmptyMap,
               sat |-> FALSE, result |-> EmptyMap, store |-> st]}
        ELSE UNION {UNION {recorded(r) : r \in DPLL(applied, preAssignments)}
                        : applied \in applyPreAssignments(parsed.cnf, preAssignments)}

-----------------------------------------------------------------------------
(* The inputs entered at the prompt.                                       *)

FormulaNames == {<<"R">>, <<"S">>}

\* (!j \/ !y)
TextR == <<"(", "!", "j", " ", "\\", "/", " ", "!", "y", ")">>
\* (R \/ j) /\ (j \/ y)
TextI == <<"(", "R", " ", "\\", "/", " ", "j", ")", " ", "/", "\\", " ",
           "(", "j", " ", "\\", "/", " ", "y", ")">>
\* (R \/ z) /\ (j \/ y)
TextG == <<"(", "R", " ", "\\", "/", " ", "z", ")", " ", "/", "\\", " ",
           "(", "j", " ", "\\", "/", " ", "y", ")">>
\* (j) /\ (!j)
TextB == <<"(", "j", ")", " ", "/", "\\", " ", "(", "!", "j", ")">>
\* (j) /\ (!y)
TextJY == <<"(", "j", ")", "/", "\\", "(", "!", "y", ")">>
\* (S \/ j)
TextS == <<"(", "S", "\\", "/", "j", ")">>
\* (R)
TextRef == <<"(", "R", ")">>

InputTexts == {TextR, TextI, TextG, TextB, TextJY, TextS, TextRef}

\* nothing entered, or "j := true"
PreAssignmentInputs == {<<>>, <<<<<<"j">>, TRUE>>>>}

-----------------------------------------------------------------------------
(* The program: the prompt loop of main.                                   *)

NotRun == [done |-> FALSE, sat |-> FALSE, assignment |-> EmptyMap]

NoCall ==
    [op |-> "none", variable |-> 0, value |-> FALSE, out |-> <<>>, ok |-> FALSE,
     assignment |-> EmptyMap]

\* No search: engine "none".  A search has the pre-assignment map start, the
\* clause set root handed to the engine, the argument cur of the pending DPLL
\* call, the one assignment map all DPLL calls share, the DPLL calls waiting
\* for a callee (frames: the clause set they branched on, the branch variable,
\* the branch under way, and the map as it was when they branched), the
\* value ret being returned, and the work stack of iterativeDPLL (each entry
\* with its depth and the clause set and variable of the branch that pushed it).
NoSearch ==
    [engine |-> "none", start |-> EmptyMap, pc |-> "done", root |-> <<>>,
     cur |-> <<>>, assignment |-> EmptyMap, frames |-> <<>>, ret |-> FALSE,
     stack |-> <<>>, sat |-> FALSE, result |-> EmptyMap]

NoParse ==
    [parser |-> "none", input |-> <<>>, isNeg |-> FALSE, cnf |-> <<>>,
     failed |-> FALSE]

NoCheck ==
    [op |-> "none", formulaName |-> <<>>, input |-> <<>>, items |-> <<>>,
     before |-> EmptyStore, crashed |-> FALSE, cnf |-> <<>>, varMap |-> EmptyMap,
     reverseMap |-> EmptyMap, preAssignments |-> EmptyMap, sat |-> FALSE,
     result |-> EmptyMap]

NoRerun == [crashed |-> FALSE, sat |-> FALSE, result |-> EmptyMap, store |-> EmptyStore]

Init ==
    /\ store = EmptyStore
    /\ file = EmptyStore
    /\ pc = "prompt"
    /\ last = NoCheck
    /\ rerun = NoRerun
    /\ parse = NoParse
    /\ cnf = <<>>
    /\ recResult = NotRun
    /\ iterResult = NotRun
    /\ simp = NoCall
    /\ search = NoSearch

\* Option 1.  first is what this run of the check does; second is what another
\* run on the same store and the same inputs does, kept beside it.
CheckFormula ==
    /\ pc = "prompt"
    /\ \E formulaName \in FormulaNames, input \in InputTexts, items \in PreAssignmentInputs :
         \E first, second \in checkFormula(store, formulaName, input, items) :
            /\ last' = [op |-> "check", formulaName |-> formulaName, input |-> input,
                        items |-> items, before |-> store, crashed |-> first.crashed,
                        cnf |-> first.cnf, varMap |-> first.varMap,
                        reverseMap |-> first.reverseMap,
                        preAssignments |-> first.preAssignments,
                        sat |-> first.sat, result |-> first.result]
            /\ rerun' = [crashed |-> second.crashed, sat |-> second.sat,
                         result |-> second.result, store |-> second.store]
            /\ store' = first.store
            /\ file' = IF first.crashed THEN file ELSE first.store
            /\ pc' = IF first.crashed THEN "crashed" ELSE "prompt"
    /\ UNCHANGED parse
    /\ UNCHANGED solverVars

\* Option 2 prints the store and changes nothing.
ViewStored ==
    /\ pc = "prompt"
    /\ UNCHANGED vars

\* Option 3.
Exit ==
    /\ pc = "prompt"
    /\ pc' = "exited"
    /\ UNCHANGED <<store, file, last, rerun, parse>>
    /\ UNCHANGED solverVars

\* The program is started again: loadStore reads what saveStore last wrote.
Start ==
    /\ pc \in {"crashed", "exited"}
    /\ store' = file
    /\ pc' = "prompt"
    /\ UNCHANGED <<file, last, rerun, parse>>
    /\ UNCHANGED solverVars

Next == CheckFormula \/ ViewStored \/ Exit \/ Start

Spec == Init /\ [][Next]_vars

-----------------------------------------------------------------------------
(* Solver harness: every clause set within the bounds is handed to both    *)
(* engines with an empty assignment.                                       *)

RECURSIVE ClauseSets(_)
\* The clause sets whose clauses and literal occurrences number at most n.
ClauseSets(n) ==
    IF n = 0 THEN {<<>>}
    ELSE LET smaller == ClauseSets(n - 1)
         IN  smaller
             \cup {Append(c, <<>>) : c \in smaller}
             \cup {[c EXCEPT ![Len(c)] = Append(@, l)] :
                    <<c, l>> \in {c \in smaller : Len(c) > 0} \X Lits}

InitSolve ==
    /\ cnf \in ClauseSets(MaxSize)
    /\ recResult = NotRun
    /\ iterResult = NotRun
    /\ simp = NoCall
    /\ search = NoSearch
    /\ store = EmptyStore
    /\ file = EmptyStore
    /\ pc = "solver"
    /\ last = NoCheck
    /\ rerun = NoRerun
    /\ parse = NoParse

SolveRecursive ==
    /\ ~recResult.done
    /\ \E r \in DPLL(cnf, EmptyMap) :
          recResult' = [done |-> TRUE, sat |-> r.sat, assignment |-> r.assignment]
    /\ UNCHANGED <<cnf, iterResult, simp, search>>
    /\ UNCHANGED programVars

SolveIterative ==
    /\ ~iterResult.done
    /\ \E r \in iterativeDPLL(cnf, EmptyMap) :
          iterResult' = [done |-> TRUE, sat |-> r.sat, assignment |-> r.assignment]
    /\ UNCHANGED <<cnf, recResult, simp, search>>
    /\ UNCHANGED programVars

NextSolve == SolveRecursive \/ SolveIterative

SpecSolve == InitSolve /\ [][NextSolve]_vars

-----------------------------------------------------------------------------
(* Search harness: one search, one step at a time.  main rewrites the      *)
(* clause set by the pre-assignments and hands it to the engine: DPLL      *)
(* (satisfier.go), whose recursive calls share one map, or iterativeDPLL   *)
(* (part_001), whose work stack holds copies.                              *)

\* Clause sets on which a true branch fails after recording values, and
\* clause sets that need two branch steps on one path.
BacktrackExamples ==
    { <<<<1, 1>>, <<-1, -1>>>>,
      <<<<1, 1>>, <<-1, 2>>, <<-1, -2>>>>,
      <<<<1, -1>>, <<-1, 2>>, <<-1, -2>>>>,
      <<<<1, 2>>, <<-2, -2>>, <<2, -2>>>>,
      <<<<-1, 2>>, <<2, 2>>, <<-2, 1>>, <<-2, -2>>>>,
      <<<<1, 2>>, <<-1, 3>>, <<-1, -3>>, <<-1, -2>>>>,
      <<<<1, 2>>, <<-1, 3>>, <<-1, -3>>, <<-1, -2>>, <<-2, 3>>, <<-2, -3>>>>,
      <<<<1, 2, -2>>, <<-1, 2, -2>>>>,
      <<<<1, 2, 3>>, <<-1, 2, 3>>, <<2, -3, -3>>, <<-2, 3, 3>>, <<-2, -3, -3>>>> }

SearchInputs == ClauseSets(MaxSearchSize) \cup BacktrackExamples

\* The pre-assignment maps: none, or variable 1 with either value.
PreAssignmentMaps == {EmptyMap} \cup {Put(EmptyMap, 1, value) : value \in BOOLEAN}

InitSearch ==
    /\ cnf \in SearchInputs
    /\ \E engine \in {"recursive", "iterative"}, start \in PreAssignmentMaps :
          search = [NoSearch EXCEPT !.engine = engine, !.start = start, !.pc = "apply"]
    /\ recResult = NotRun
    /\ iterResult = NotRun
    /\ simp = NoCall
    /\ store = EmptyStore
    /\ file = EmptyStore
    /\ pc = "solver"
    /\ last = NoCheck
    /\ rerun = NoRerun
    /\ parse = NoParse

\* main: cnf = applyPreAssignments(cnf, preAssignments); assignment :=
\* preAssignments; the engine is entered (iterativeDPLL puts the clause set
\* and a copy of the map on its stack).
ApplyPre ==
    /\ search.pc = "apply"
    /\ \E applied \in applyPreAssignments(cnf, search.start) :
          search' = [search EXCEPT
              !.pc = IF search.engine = "recursive" THEN "call" ELSE "loop",
              !.root = applied,
              !.cur = applied,
              !.assignment = search.start,
              !.stack = IF search.engine = "recursive" THEN <<>>
                        ELSE <<[cnf |-> applied,
                                assignment |-> copyAssignment(search.start),
                                depth |-> 0, parent |-> applied, variable |-> 0]>>]
    /\ UNCHANGED <<cnf, recResult, iterResult, simp>>
    /\ UNCHANGED programVars

\* DPLL: unit propagation finds a conflict; the call returns false.
DPLLConflict ==
    /\ search.engine = "recursive"
    /\ search.pc = "call"
    /\ LET up == UnitPropagation(search.cur, search.assignment)
       IN  /\ ~up.ok
           /\ search' = [search EXCEPT !.assignment = up.assignment,
                                       !.ret = FALSE, !.pc = "return"]
    /\ UNCHANGED <<cnf, recResult, iterResult, simp>>
    /\ UNCHANGED programVars

\* DPLL: after propagation and pure-literal elimination no clause is left;
\* the call returns true.
DPLLSatisfied ==
    /\ search.engine = "recursive"
    /\ search.pc = "call"
    /\ LET up == UnitPropagation(search.cur, search.assignment)
       IN  /\ up.ok
           /\ \E pl \in PureLiteralElimination(up.cnf, up.assignment) :
                 /\ Len(pl.cnf) = 0
                 /\ search' = [search EXCEPT !.assignment = pl.assignment,
                                             !.ret = TRUE, !.pc = "return"]
    /\ UNCHANGED <<cnf, recResult, iterResult, simp>>
    /\ UNCHANGED programVars

\* DPLL: clauses are left; the branch variable is set to true in the shared
\* map and DPLL is called on assign(cnf, variable, true).
DPLLBranch ==
    /\ search.engine = "recursive"
    /\ search.pc = "call"
    /\ LET up == UnitPropagation(search.cur, search.assignment)
       IN  /\ up.ok
           /\ \E pl \in PureLiteralElimination(up.cnf, up.assignment) :
                 /\ Len(pl.cnf) > 0
                 /\ LET variable == branchVariable(pl.cnf)
                    IN  search' = [search EXCEPT
                            !.frames = Append(search.frames,
                                [cnf |-> pl.cnf, variable |-> variable,
                                 branch |-> TRUE, before |-> pl.assignment]),
                            !.assignment = Put(pl.assignment, variable, TRUE),
                            !.cur = assign(pl.cnf, variable, TRUE)]
    /\ UNCHANGED <<cnf, recResult, iterResult, simp>>
    /\ UNCHANGED programVars

\* DPLL: the call for value true returned false; the branch variable is set
\* to false in the shared map and DPLL is called on assign(cnf, variable, false).
DPLLBacktrack ==
    /\ search.engine = "recursive"
    /\ search.pc = "return"
    /\ search.frames # <<>>
    /\ LET top == search.frames[Len(search.frames)]
       IN  /\ top.branch
           /\ ~search.ret
           /\ search' = [search EXCEPT
                 !.frames[Len(search.frames)].branch = FALSE,
                 !.assignment = Put(search.assignment, top.variable, FALSE),
                 !.cur = assign(top.cnf, top.variable, FALSE),
                 !.pc = "call"]
    /\ UNCHANGED <<cnf, recResult, iterResult, simp>>
    /\ UNCHANGED programVars

\* DPLL: the call for value true returned true, or the call for value false
\* returned; the waiting call returns the same.
DPLLUnwind ==
    /\ search.engine = "recursive"
    /\ search.pc = "return"
    /\ search.frames # <<>>
    /\ LET top == search.frames[Len(search.frames)]
       IN  /\ search.ret \/ ~top.branch
           /\ search' = [search EXCEPT
                 !.frames = SubSeq(search.frames, 1, Len(search.frames) - 1)]
    /\ UNCHANGED <<cnf, recResult, iterResult, simp>>
    /\ UNCHANGED programVars

\* The outermost DPLL call returns to main.
DPLLFinish ==
    /\ search.engine = "recursive"
    /\ search.pc = "return"
    /\ search.frames = <<>>
    /\ search' = [search EXCEPT !.pc = "done", !.sat = search.ret,
                                !.result = search.assignment]
    /\ UNCHANGED <<cnf, recResult, iterResult, simp>>
    /\ UNCHANGED programVars

\* iterativeDPLL: the popped state has a conflict; the loop continues.
IterConflict ==
    /\ search.engine = "iterative"
    /\ search.pc = "loop"
    /\ search.stack # <<>>
    /\ LET state == search.stack[Len(search.stack)]
           up == UnitPropagation(state.cnf, state.assignment)
       IN  /\ ~up.ok
           /\ search' = [search EXCEPT
                 !.stack = SubSeq(search.stack, 1, Len(search.stack) - 1)]
    /\ UNCHANGED <<cnf, recResult, iterResult, simp>>
    /\ UNCHANGED programVars

\* iterativeDPLL: the popped state has no clause left; its map is returned.
IterSatisfied ==
    /\ search.engine = "iterative"
    /\ search.pc = "loop"
    /\ search.stack # <<>>
    /\ LET state == search.stack[Len(search.stack)]
           up == UnitPropagation(state.cnf, state.assignment)
       IN  /\ up.ok
           /\ \E pl \in PureLiteralElimination(up.cnf, up.assignment) :
                 /\ Len(pl.cnf) = 0
                 /\ search' = [search EXCEPT
                       !.stack = SubSeq(search.stack, 1, Len(search.stack) - 1),
                       !.pc = "done", !.sat = TRUE, !.result = pl.assignment]
    /\ UNCHANGED <<cnf, recResult, iterResult, simp>>
    /\ UNCHANGED programVars

\* iterativeDPLL: the popped state has clauses left; the false branch and then
\* the true branch are pushed, each with a copy of the state's map.
IterBranch ==
    /\ search.engine = "iterative"
    /\ search.pc = "loop"
    /\ search.stack # <<>>
    /\ LET state == search.stack[Len(search.stack)]
           up == UnitPropagation(state.cnf, state.assignment)
       IN  /\ up.ok
           /\ \E pl \in PureLiteralElimination(up.cnf, up.assignment) :
                 /\ Len(pl.cnf) > 0
                 /\ LET variable == branchVariable(pl.cnf)
                        pushed(value) ==
                            [cnf |-> assign(pl.cnf, variable, value),
                             assignment |-> copyAssignment(pl.assignment),
                             depth |-> state.depth + 1, parent |-> pl.cnf,
                             variable |-> variable]
                    IN  search' = [search EXCEPT
                            !.stack = SubSeq(search.stack, 1, Len(search.stack) - 1)
                                        \o <<pushed(FALSE), pushed(TRUE)>>]
    /\ UNCHANGED <<cnf, recResult, iterResult, simp>>
    /\ UNCHANGED programVars

\* iterativeDPLL: the stack is empty; false and the caller's map are returned.
IterExhausted ==
    /\ search.engine = "iterative"
    /\ search.pc = "loop"
    /\ search.stack = <<>>
    /\ search' = [search EXCEPT !.pc = "done", !.sat = FALSE,
                                !.result = search.start]
    /\ UNCHANGED <<cnf, recResult, iterResult, simp>>
    /\ UNCHANGED programVars

NextSearch ==
    \/ ApplyPre
    \/ DPLLConflict \/ DPLLSatisfied \/ DPLLBranch
    \/ DPLLBacktrack \/ DPLLUnwind \/ DPLLFinish
    \/ IterConflict \/ IterSatisfied \/ IterBranch \/ IterExhausted

\* The program is one thread that runs the engine to its return: a step that
\* can be taken is taken.
SpecSearch == InitSearch /\ [][NextSearch]_vars /\ WF_vars(NextSearch)

-----------------------------------------------------------------------------
(* Parser harness: R is stored by a check, then a text that names R is     *)
(* parsed by the parseCNF of satisfier.go and by the parseCNF of part_001.  *)

VariableNames == {<<"j">>, <<"y">>}

\* A variable, negated or not.
LiteralTexts == VariableNames \cup {<<"!">> \o name : name \in VariableNames}

\* Formulas of one or two clauses of one or two literals, written with or
\* without blanks around the connectives.
FormulaTexts ==
    UNION {
      LET orSep == IF blanks THEN <<" ">> \o OrSep \o <<" ">> ELSE OrSep
          andSep == IF blanks THEN <<" ">> \o AndSep \o <<" ">> ELSE AndSep
          clauseTexts ==
              {<<"(">> \o l \o <<")">> : l \in LiteralTexts}
                \cup {<<"(">> \o l[1] \o orSep \o l[2] \o <<")">>
                        : l \in LiteralTexts \X LiteralTexts}
      IN  clauseTexts
            \cup {c[1] \o andSep \o c[2] : c \in clauseTexts \X clauseTexts}
      : blanks \in BOOLEAN }

\* The stores a first check of R leaves: R is stored when it is satisfiable.
StoresWithR ==
    {r.store : r \in UNION {checkFormula(EmptyStore, <<"R">>, text, <<>>)
                               : text \in FormulaTexts}}
        \ {EmptyStore}

\* Texts whose first literal names R, negated or not: alone, followed by a
\* clause, and followed by a literal in its own clause.
ReferenceTexts ==
    UNION {
      LET ref == IF isNeg THEN <<"!", "R">> ELSE <<"R">>
      IN  { [text |-> <<"(">> \o ref \o <<")">>, isNeg |-> isNeg],
            [text |-> <<"(">> \o ref \o <<")">> \o AndSep \o <<"(", "y", ")">>,
             isNeg |-> isNeg],
            [text |-> <<"(">> \o ref \o OrSep \o <<"y", ")">>, isNeg |-> isNeg] }
      : isNeg \in BOOLEAN }

InitParse ==
    /\ store \in StoresWithR
    /\ file = store
    /\ pc = "parser"
    /\ last = NoCheck
    /\ rerun = NoRerun
    /\ parse = NoParse
    /\ cnf = <<>>
    /\ recResult = NotRun
    /\ iterResult = NotRun
    /\ simp = NoCall
    /\ search = NoSearch

\* parseCNF of satisfier.go on a fresh varMap.
ParseRecursive ==
    /\ pc = "parser"
    /\ parse.parser = "none"
    /\ \E reference \in ReferenceTexts :
          LET parsed == parseCNF(reference.text, EmptyMap, store, 0)
          IN  parse' = [parser |-> "satisfier.go", input |-> reference.text,
                        isNeg |-> reference.isNeg, cnf |-> parsed.cnf,
                        failed |-> parsed.overflow]
    /\ UNCHANGED <<store, file, pc, last, rerun>>
    /\ UNCHANGED solverVars

\* parseCNF of part_001 on a fresh varMap.
ParseScanning ==
    /\ pc = "parser"
    /\ parse.parser = "none"
    /\ \E reference \in ReferenceTexts :
          LET parsed == scanningParseCNF(reference.text, EmptyMap, store)
          IN  parse' = [parser |-> "part_001", input |-> reference.text,
                        isNeg |-> reference.isNeg, cnf |-> parsed.cnf,
                        failed |-> parsed.overflow \/ parsed.panic]
    /\ UNCHANGED <<store, file, pc, last, rerun>>
    /\ UNCHANGED solverVars

NextParse == ParseRecursive \/ ParseScanning

SpecParse == InitParse /\ [][NextParse]_vars

-----------------------------------------------------------------------------
(* Simplifier harness: assign and UnitPropagation are called on every      *)
(* clause set within the bounds.                                           *)

InitSimplify == InitSolve

CallAssign ==
    /\ \E variable \in Vars, value \in BOOLEAN :
          simp' = [op |-> "assign", variable |-> variable, value |-> value,
                   out |-> assign(cnf, variable, value), ok |-> TRUE,
                   assignment |-> EmptyMap]
    /\ UNCHANGED <<cnf, recResult, iterResult, search>>
    /\ UNCHANGED programVars

CallUnitPropagation ==
    /\ LET up == UnitPropagation(cnf, EmptyMap)
       IN  simp' = [op |-> "unit", variable |-> 0, value |-> FALSE,
                    out |-> up.cnf, ok |-> up.ok, assignment |-> up.assignment]
    /\ UNCHANGED <<cnf, recResult, iterResult, search>>
    /\ UNCHANGED programVars

NextSimplify == CallAssign \/ CallUnitPropagation

SpecSimplify == InitSimplify /\ [][NextSimplify]_vars

-----------------------------------------------------------------------------
(* Properties of the engines (checked under SpecSolve).                    *)

VarsOf(c) == {abs(c[p[1]][p[2]]) : p \in Positions(c)}

\* A literal is true under a partial assignment only if its variable has a value.
LitTrue(literal, a) ==
    /\ abs(literal) \in DOMAIN a
    /\ a[abs(literal)] = (literal > 0)

Satisfies(a, c) ==
    \A i \in 1..Len(c) : \E k \in 1..Len(c[i]) : LitTrue(c[i][k], a)

\* Truth-table evaluation over every total assignment of Vars.
BruteForceSat(c) == \E a \in [Vars -> BOOLEAN] : Satisfies(a, c)

hasUnit(c) == \E i \in 1..Len(c) : Len(c[i]) = 1
hasPure(c) == \E l \in literalKeys(c) : literalCount(c, -l) = 0
\* The top-level call can finish only through a branch decision.
mustBranch(c) == Len(c) > 0 /\ ~hasUnit(c) /\ ~hasPure(c)

\* C1: whenever DPLL returns satisfiable, the assignment it returns makes at
\* least one literal true in every clause of the clause set it was called with.
C1_DPLLSound ==
    (recResult.done /\ recResult.sat) => Satisfies(recResult.assignment, cnf)

\* C1 witness: a satisfiable verdict reached through a branch decision.
C1_Witness ==
    recResult.done /\ recResult.sat /\ mustBranch(cnf) /\ Len(cnf) = 2

\* C2: whenever iterativeDPLL returns satisfiable, the assignment snapshot it
\* returns makes at least one literal true in every clause of the clause set it
\* was called with, also in the clauses satisfied by a branch decision.
C2_IterativeSound ==
    (iterResult.done /\ iterResult.sat) => Satisfies(iterResult.assignment, cnf)

\* C3: the verdict of DPLL and the verdict of iterativeDPLL both equal the
\* verdict of brute-force truth-table evaluation of the clause set.
C3_VerdictMatchesTruthTable ==
    /\ recResult.done => (recResult.sat = BruteForceSat(cnf))
    /\ iterResult.done => (iterResult.sat = BruteForceSat(cnf))

\* C3 witness: {[a], [-a]} has been reported unsatisfiable by both engines.
C3_Witness ==
    /\ cnf = <<<<1>>, <<-1>>>>
    /\ recResult.done /\ ~recResult.sat
    /\ iterResult.done /\ ~iterResult.sat

\* C8 (as claimed): whenever DPLL returns satisfiable, every variable that
\* occurs in the clause set has a value in the returned assignment.
C8_FullAssignment ==
    (recResult.done /\ recResult.sat) => VarsOf(cnf) \subseteq DOMAIN recResult.assignment

\* C8 (amended): whenever DPLL returns satisfiable, the returned assignment
\* gives values to variables of the clause set only, and a variable it leaves
\* without a value is free: every way of completing the returned assignment
\* to all variables makes a literal true in every clause.
C8_UnvaluedVariablesAreFree ==
    (recResult.done /\ recResult.sat) =>
        /\ DOMAIN recResult.assignment \subseteq VarsOf(cnf)
        /\ \A total \in [Vars -> BOOLEAN] :
              (\A v \in DOMAIN recResult.assignment : total[v] = recResult.assignment[v])
                  => Satisfies(total, cnf)

\* C8 witness: a satisfiable verdict whose assignment leaves out a variable
\* of the clause set.
C8_Witness ==
    /\ recResult.done /\ recResult.sat
    /\ ~(VarsOf(cnf) \subseteq DOMAIN recResult.assignment)

\* C9: whenever DPLL and iterativeDPLL both return satisfiable for the same
\* clause set and starting assignment, the two returned assignments are the
\* same map.
C9_EnginesAgree ==
    (recResult.done /\ recResult.sat /\ iterResult.done /\ iterResult.sat)
        => recResult.assignment = iterResult.assignment

-----------------------------------------------------------------------------
(* Properties of the parser and of a check (lastChecked under Spec).           *)

lastChecked == last.op = "check"
lastParsed == last.op = "check" /\ ~last.crashed

\* C4: in any store reachable by a sequence of checks, also one holding a
\* formula whose text names itself or two formulas that name each other,
\* parseCNF terminates (with a cyclic-reference error) instead of expanding a
\* reference without bound.
C4_CyclicReferenceReported == lastChecked => ~last.crashed

\* C5: with R stored as (!j \/ !y), parseCNF of (R \/ j) /\ (j \/ y) returns
\* exactly two clauses, [-j, -y, j] and [j, y]: the unnegated reference gives
\* its literals to the clause it stands in and adds no clause of its own.
C5_SubstitutionExample ==
    ( /\ lastParsed
      /\ <<"R">> \in DOMAIN last.before.Formulas
      /\ last.before.Formulas[<<"R">>] = TextR
      /\ last.input = TextI )
    => LET j == Get(last.varMap, <<"j">>, 0)
           y == Get(last.varMap, <<"y">>, 0)
       IN  last.cnf = <<<<-j, -y, j>>, <<j, y>>>>

\* C6: within one top-level parseCNF call, nested expansions included, two
\* different names never receive the same id, and the ids handed out are
\* exactly 1..k for the k distinct names seen.
C6_RegistryIsBijection ==
    lastParsed =>
        /\ \A m, n \in DOMAIN last.varMap :
              last.varMap[m] = last.varMap[n] => m = n
        /\ {last.varMap[n] : n \in DOMAIN last.varMap}
              = 1..Cardinality(DOMAIN last.varMap)

\* C7: for every literal of the clause set a top-level parseCNF call returns,
\* literals of expanded stored formulas included, the returned reverse map
\* holds the literal's id and maps it to the name interned to that id.
C7_ReverseMapComplete ==
    lastParsed =>
        \A p \in Positions(last.cnf) :
            LET id == abs(last.cnf[p[1]][p[2]])
            IN  /\ id \in DOMAIN last.reverseMap
                /\ Get(last.varMap, last.reverseMap[id], 0) = id

\* C10: for the same input text, pre-assignments and store, a check yields
\* the same verdict, the same returned assignment and the same recorded
\* named assignment on every run, whatever order the maps are iterated in.
C10_CheckIsDeterministic ==
    lastChecked =>
        /\ rerun.crashed = last.crashed
        /\ rerun.sat = last.sat
        /\ rerun.result = last.result
        /\ (pc = "prompt" => rerun.store = store)

\* C12: the store changes only on a satisfiable verdict.  After a check with
\* an unsatisfiable verdict (or one that crashed) the store is the store the
\* check started from; after a check with a satisfiable verdict it differs
\* from that store in the record of the entered name only, which now holds
\* the entered text; exiting and starting again change nothing, so no
\* operation removes a record.
C12_StoreChangesOnlyOnSat ==
    IF lastChecked
    THEN LET before == last.before
             formulaName == last.formulaName
         IN  IF last.sat
             THEN /\ DOMAIN store.Formulas = DOMAIN before.Formulas \cup {formulaName}
                  /\ DOMAIN store.Assignments
                        = DOMAIN before.Assignments \cup {formulaName}
                  /\ store.Formulas[formulaName] = last.input
                  /\ \A n \in DOMAIN before.Formulas \ {formulaName} :
                        store.Formulas[n] = before.Formulas[n]
                  /\ \A n \in DOMAIN before.Assignments \ {formulaName} :
                        store.Assignments[n] = before.Assignments[n]
             ELSE store = before
    ELSE store = EmptyStore

\* An unsatisfiable check on a store that holds records.
C12_Witness ==
    /\ lastParsed
    /\ ~last.sat
    /\ Cardinality(DOMAIN store.Formulas) = 2

\* A satisfiable check that overwrites one record beside another.
C12_OverwriteWitness ==
    /\ lastParsed
    /\ last.sat
    /\ last.formulaName \in DOMAIN last.before.Formulas
    /\ last.before.Formulas[last.formulaName] # last.input
    /\ Cardinality(DOMAIN store.Formulas) = 2

-----------------------------------------------------------------------------
(* Properties of the simplifier (under SpecSimplify).                      *)

\* C13: assign(cnf, variable, value) drops every clause that holds the
\* literal made true by (variable, value); the remaining clauses appear in
\* their input order, each without the literals of variable and with its
\* other literals in their input order; no literal of variable is left in
\* the result.  (The input clause set is a value here: the call cannot
\* change it.)
C13_AssignResult ==
    simp.op = "assign" =>
        LET variable == simp.variable
            out == simp.out
            made == IF simp.value THEN variable ELSE -variable
            keptClauses ==
                {i \in 1..Len(cnf) : \A k \in 1..Len(cnf[i]) : cnf[i][k] # made}
            place(i) == Cardinality({j \in keptClauses : j <= i})
            keptLiterals(i) ==
                {k \in 1..Len(cnf[i]) : abs(cnf[i][k]) # variable}
            spot(i, k) == Cardinality({m \in keptLiterals(i) : m <= k})
        IN  /\ Len(out) = Cardinality(keptClauses)
            /\ \A i \in keptClauses :
                  /\ Len(out[place(i)]) = Cardinality(keptLiterals(i))
                  /\ \A k \in keptLiterals(i) :
                        out[place(i)][spot(i, k)] = cnf[i][k]
            /\ \A p \in Positions(out) : abs(out[p[1]][p[2]]) # variable

\* A call that drops one clause and shortens another.
C13_Witness ==
    /\ simp.op = "assign"
    /\ simp.variable = 1
    /\ simp.value
    /\ cnf = <<<<1>>, <<-1, 2>>>>
    /\ simp.out = <<<<2>>>>

\* C14: UnitPropagation terminates on every clause set (each round records
\* one more variable and removes at least the unit clause it used); when it
\* returns ok the returned clause set has no clause of length 1 and none of
\* length 0; it returns conflict exactly when the returned clause set holds
\* an empty clause.
C14_UnitPropagationFixedPoint ==
    simp.op = "unit" =>
        /\ simp.ok =>
              \A i \in 1..Len(simp.out) : Len(simp.out[i]) > 1
        /\ ~simp.ok <=> \E i \in 1..Len(simp.out) : Len(simp.out[i]) = 0
        /\ Len(simp.out) + Cardinality(DOMAIN simp.assignment) <= Len(cnf)

\* A propagation of two rounds that ends ok.
C14_Witness ==
    /\ simp.op = "unit"
    /\ simp.ok
    /\ Cardinality(DOMAIN simp.assignment) = 2

\* A conflict that the propagation itself produced.
C14_ConflictWitness ==
    /\ simp.op = "unit"
    /\ ~simp.ok
    /\ \A i \in 1..Len(cnf) : Len(cnf[i]) > 0

-----------------------------------------------------------------------------
(* Properties of the search, step by step (under SpecSearch).              *)

searching == search.engine # "none" /\ search.pc # "apply"

\* Every branch step is on a variable of the clause set it branches on, and
\* the clause set handed on has neither that variable nor any variable the
\* branched clause set lacks, so the distinct variables left plus the branch
\* steps taken never exceed the distinct variables of the engine's input.
BranchesEliminate ==
    searching =>
        LET rootVars == VarsOf(search.root)
            frames == search.frames
        IN  /\ Len(frames) <= Cardinality(rootVars)
            /\ \A i \in 1..Len(frames) :
                  /\ frames[i].variable \in VarsOf(frames[i].cnf)
                  /\ Cardinality(VarsOf(frames[i].cnf)) + (i - 1)
                        <= Cardinality(rootVars)
                  /\ VarsOf(frames[i].cnf) \subseteq
                        (IF i = 1 THEN rootVars
                         ELSE VarsOf(frames[i - 1].cnf) \ {frames[i - 1].variable})
            /\ (search.pc = "call" /\ frames # <<>>) =>
                  /\ VarsOf(search.cur) \subseteq
                        VarsOf(frames[Len(frames)].cnf) \ {frames[Len(frames)].variable}
                  /\ Cardinality(VarsOf(search.cur)) + Len(frames)
                        <= Cardinality(rootVars)
            /\ \A k \in 1..Len(search.stack) :
                  LET entry == search.stack[k]
                  IN  /\ Cardinality(VarsOf(entry.cnf)) + entry.depth
                            <= Cardinality(rootVars)
                      /\ entry.depth = 0 => entry.cnf = search.root
                      /\ entry.depth > 0 =>
                            /\ entry.variable \in VarsOf(entry.parent)
                            /\ VarsOf(entry.cnf) \subseteq
                                  VarsOf(entry.parent) \ {entry.variable}

\* C11: DPLL and iterativeDPLL reach a verdict on every clause set; each
\* branch step assigns a variable that occurs in the current clause set, the
\* distinct variables of the clause set strictly decrease along every
\* branch, and the branching depth never exceeds the number of distinct
\* variables of the input.
C11_SearchTerminates ==
    /\ []BranchesEliminate
    /\ <>(search.pc = "done")

\* DPLL two branch steps deep.
C11_Witness ==
    /\ search.engine = "recursive"
    /\ Len(search.frames) = 2
    /\ search.pc = "call"

\* iterativeDPLL with a state two branch steps deep on its stack.
C11_IterativeWitness ==
    /\ search.engine = "iterative"
    /\ \E k \in 1..Len(search.stack) : search.stack[k].depth = 2

\* A verdict reached after a failed true branch.
C11_VerdictWitness ==
    /\ search.engine = "recursive"
    /\ search.pc = "done"
    /\ cnf = <<<<1, 2>>, <<-1, 3>>, <<-1, -3>>, <<-1, -2>>>>

\* C16: when the value=true exploration of a branch variable has failed, the
\* map with which the value=false exploration starts holds, besides the
\* branch variable, only what it held when the branch was taken: nothing
\* recorded during the failed exploration.
C16_FalseBranchStartsClean ==
    ( /\ search.engine = "recursive"
      /\ search.pc = "call"
      /\ search.frames # <<>>
      /\ ~search.frames[Len(search.frames)].branch )
    => LET top == search.frames[Len(search.frames)]
       IN  \A variable \in DOMAIN search.assignment \ {top.variable} :
              /\ variable \in DOMAIN top.before
              /\ search.assignment[variable] = top.before[variable]

\* C17: from the rewriting by applyPreAssignments on, no step of DPLL
\* changes the value of a pre-assigned variable in the shared map, and on a
\* satisfiable verdict the returned assignment gives each pre-assigned
\* variable its pre-assigned value.
C17_PreAssignmentsKept ==
    (search.engine = "recursive" /\ search.pc # "apply") =>
        \A variable \in DOMAIN search.start :
            /\ variable \in DOMAIN search.assignment
            /\ search.assignment[variable] = search.start[variable]
            /\ (search.pc = "done" /\ search.sat) =>
                  /\ variable \in DOMAIN search.result
                  /\ search.result[variable] = search.start[variable]

\* A satisfiable verdict after propagation, a failed true branch and a
\* backtrack, with variable 1 pre-assigned.
C17_Witness ==
    /\ search.engine = "recursive"
    /\ search.pc = "done"
    /\ search.sat
    /\ search.start = Put(EmptyMap, 1, TRUE)
    /\ cnf = <<<<1, 2>>, <<-2, -2>>, <<2, -2>>>>
    /\ search.result = Put(Put(EmptyMap, 1, TRUE), 2, FALSE)

-----------------------------------------------------------------------------
(* Properties of the two parsers (under SpecParse).                        *)

\* The clause set the parser itself returns for the stored text of R.
expansionOfR ==
    IF parse.parser = "satisfier.go"
    THEN parseCNF(store.Formulas[<<"R">>], EmptyMap, store, 0).cnf
    ELSE scanningParseCNF(store.Formulas[<<"R">>], EmptyMap, store).cnf

\* Every sign flipped, clause order and literal order kept.
flipped(c) == [i \in 1..Len(c) |-> [k \in 1..Len(c[i]) |-> -c[i][k]]]

\* The parsed clause set begins with the clauses a reference to R appends:
\* those of the expansion, flipped when the reference is negated.
beginsWithReference ==
    LET expansion == expansionOfR
        appended == IF parse.isNeg THEN flipped(expansion) ELSE expansion
    IN  /\ Len(parse.cnf) >= Len(appended)
        /\ SubSeq(parse.cnf, 1, Len(appended)) = appended

\* C15 for the parseCNF of satisfier.go alone.
ReferenceIsLiteralFlipRecursive ==
    (parse.parser = "satisfier.go" /\ ~parse.failed) => beginsWithReference

\* C15: a negated reference to a stored formula appends one clause per
\* clause of the stored formula's expansion, every literal's sign flipped,
\* clause order and literal order kept; an unnegated reference appends the
\* expansion's clauses unchanged; in the parseCNF of satisfier.go and in the
\* parseCNF of part_001.
C15_ReferenceIsLiteralFlip ==
    (parse.parser # "none" /\ ~parse.failed) => beginsWithReference

=============================================================================
